---------------------------- MODULE Spec2Model ----------------------------
(***************************************************************************)
(* A model of src/src/parser.py: the format parsers (CsvParser, XmlParser), *)
(* the Parser facade with coerce_model, and MongoStorage.                   *)
(*                                                                          *)
(* Python values are written as their repr: "None", "''", "0", "0.0",       *)
(* "'a'".  A dict is a function whose domain is the set of its keys.        *)
(***************************************************************************)
EXTENDS Integers, Sequences, FiniteSets, TLC

VARIABLES
    \* ---- Parser facade and the generator chain Parser.parse builds
    pc,        \* where the caller of Parser stands
    tag,       \* the data_format handed to Parser.__init__
    pformat,   \* self.format
    pparser,   \* self._parser
    file,      \* the content of the file at `path`
    chunk,     \* the records the format parser has materialised
    pos,       \* how many source rows/elements the format parser has consumed
    rawItem,   \* the raw record in flight from the format parser to coerce_model
    out,       \* the canonical records yielded to the caller, in order
    rawLog,    \* the raw records coerce_model has consumed, in order
    ioCount,   \* reads of the file performed so far
    \* ---- MongoStorage.store and the collection it writes
    spc,        \* where the caller of store stands
    data,       \* the generator handed to store, as what it will produce
    spos,       \* how many elements the for loop has pulled from data
    bulkOps,    \* the operations queued in the BulkOperationBuilder
    pending,    \* queued operations the server has not executed yet
    applied,    \* queued operations the server has applied
    failed,     \* queued operations the server has rejected
    upserted,   \* applied operations that inserted a new document
    collection, \* the documents of db.parsed, in natural order
    before,     \* the collection when the current call of store began
    round,      \* 1: store(S), 2: the same S stored again
    afterFirst, \* the collection when store(S) returned the first time
    result,     \* what the call of store handed to its caller
    \* ---- MongoStorage.__init__ of several sinks on one collection
    ipc,        \* where each construction stands
    seen,       \* the index_information() each construction has read
    indexes,    \* the indexes of the collection
    idocs,      \* the id values of the documents inserted directly
    lastInsert, \* the outcome of the last direct insert
    \* ---- XmlParser.parse and the tree iterparse keeps
    xpc,        \* where the generator stands
    xdoc,       \* the document: its top-level elements
    xat,        \* the record element of the last end event: <<entry, item>>
    tree,       \* the elements attached under the root
    xcount      \* records yielded so far

parserVars == <<pc, tag, pformat, pparser, file, chunk, pos, rawItem, out,
                rawLog, ioCount>>
storeVars == <<spc, data, spos, bulkOps, pending, applied, failed, upserted,
               collection, before, round, afterFirst, result>>
indexVars == <<ipc, seen, indexes, idocs, lastInsert>>
xmlVars == <<xpc, xdoc, xat, tree, xcount>>

vars == <<parserVars, storeVars, indexVars, xmlVars>>

\* ------------------------------------------------------------------ bounds

MaxRows == 2
MaxBatch == 2
NumSinks == 3
MaxInserts == 3
MaxEntries == 4
MaxWrapped == 2
ItemChildren == 2

\* ------------------------------------------------------- Python's values

PyNone == "None"
PyEmptyStr == "''"

\* bool(v) for the values of the model
Truthy(v) == v \notin {"None", "''", "0", "0.0", "False"}

\* dict.get(key): None when the key is absent
DictGet(d, key) == IF key \in DOMAIN d THEN d[key] ELSE PyNone

\* --------------------------------------------------------- mapping tables

CSV == "csv"
XML == "xml"

MODEL_TO_CSV_DICT ==
    [id |-> "product_id", title |-> "product_name",
     sku_number |-> "sku_number", url |-> "product_url",
     image_url |-> "product_image_url", buy_url |-> "buy_url",
     description |-> "long_product_description", discount |-> "discount",
     discount_type |-> "discount_type", currency |-> "currency",
     retail_price |-> "retail_price", sale_price |-> "sale_price",
     brand |-> "brand", manufacture |-> "manufacture_name",
     shipping |-> "shipping", availability |-> "availability"]

MODEL_TO_XML_DICT ==
    [id |-> "item_unique_id", title |-> "item_title",
     sku_number |-> "item_sku", url |-> "item_page_url",
     image_url |-> "item_image_url", buy_url |-> "offer_page_url",
     description |-> "book_size_description", discount |-> PyNone,
     discount_type |-> PyNone, currency |-> PyNone,
     retail_price |-> "item_price", sale_price |-> "list_price",
     brand |-> "item_seller", manufacture |-> "item_platform",
     shipping |-> "item_shipping_charge",
     availability |-> "amzn_sales_restriction"]

HEADERS_CSV ==
    {"product_id", "product_name", "sku_number", "primary_category",
     "secondary_category", "product_url", "product_image_url", "buy_url",
     "short_product_description", "long_product_description", "discount",
     "discount_type", "sale_price", "retail_price", "begin_date", "end_date",
     "brand", "shipping", "keywords", "manufacture_part_number",
     "manufacture_name", "shipping_information", "availability",
     "universal_product_code", "class_id", "currency", "m1", "pixel",
     "miscellaneous_attribute", "attribute_2", "attribute_3", "attribute_4",
     "attribute_5", "attribute_6", "attribute_7", "attribute_8",
     "attribute_9", "attribute_10"}

PARSERS_DATA ==
    [csv |-> [parser |-> "CsvParser", model_mapping |-> MODEL_TO_CSV_DICT],
     xml |-> [parser |-> "XmlParser", model_mapping |-> MODEL_TO_XML_DICT]]

\* ------------------------------------------------------------ input files

\* The format tags a caller may ask for.
Tags == {"csv", "xml", "json", "CSV"}

\* The cells of a delimited file, as text.  The columns that are not in
\* VarCols are empty in every row.
CellTexts == {"", "0", "7", "a"}
VarCols == {"product_id", "discount"}
CsvRows == [VarCols -> CellTexts]

\* An item_basic_data element: its child elements, tag -> text.  lxml gives
\* the text of an empty element as None, never as ''.
XmlChildTexts ==
    [item_unique_id |-> {"None", "'a'"}, item_title |-> {"'a'"},
     discount |-> {"'a'"}]
XmlElems ==
    UNION {[tags -> {"None", "'a'"}] : tags \in SUBSET DOMAIN XmlChildTexts}
XmlRows == {e \in XmlElems : \A t \in DOMAIN e : e[t] \in XmlChildTexts[t]}

SeqsUpTo(S, n) == UNION {[1..k -> S] : k \in 0..n}

Files(fmt) ==
    IF fmt = CSV THEN SeqsUpTo(CsvRows, MaxRows) ELSE SeqsUpTo(XmlRows, MaxRows)

\* ------------------------------------------------------------- CsvParser

IsNumeric(t) == t \in {"0", "7"}

\* pandas infers one dtype per column over the rows it reads
ColumnDtype(f, col) ==
    LET cells == {f[i][col] : i \in 1..Len(f)}
    IN  IF \A t \in cells : t = "" THEN "float64"
        ELSE IF \A t \in cells : t = "" \/ IsNumeric(t)
             THEN IF "" \in cells THEN "float64" ELSE "int64"
             ELSE "object"

\* the value of a cell after read_csv and fillna('')
CellValue(dtype, t) ==
    IF t = "" THEN PyEmptyStr
    ELSE CASE dtype = "int64" -> t
           [] dtype = "float64" -> (IF t = "0" THEN "0.0" ELSE "7.0")
           [] OTHER -> (CASE t = "0" -> "'0'" [] t = "7" -> "'7'"
                          [] OTHER -> "'a'")

\* chunk.fillna('').to_dict('records'), for the one chunk read_csv hands out
\* when iterator=True is given without a chunksize: the whole file
CsvRecords(f) ==
    [i \in 1..Len(f) |->
        [h \in HEADERS_CSV |->
            IF h \in VarCols THEN CellValue(ColumnDtype(f, h), f[i][h])
            ELSE PyEmptyStr]]

\* ------------------------------------------------------------- XmlParser

\* {child.tag: child.text for child in elem}
XmlRecord(elem) == elem

\* ---------------------------------------------------------------- Parser

\* the dict comprehension of coerce_model, for one item
CoerceItem(mapping, item) ==
    LET keep == {m \in DOMAIN mapping :
                    /\ Truthy(mapping[m])
                    /\ Truthy(DictGet(item, mapping[m]))}
    IN  [m \in keep |-> item[mapping[m]]]

\* Parser.__init__ with a lookup that falls back to the csv entry
ParserInitDefault(t) ==
    /\ pc = "start"
    /\ tag' = t
    /\ pparser' = PARSERS_DATA[IF t \in DOMAIN PARSERS_DATA THEN t ELSE CSV].parser
    /\ pformat' = IF t \in DOMAIN PARSERS_DATA THEN t ELSE CSV
    /\ pc' = "constructed"
    /\ UNCHANGED <<file, chunk, pos, rawItem, out, rawLog, ioCount>>
    /\ UNCHANGED <<storeVars, indexVars, xmlVars>>

\* Parser.__init__
ParserInit(t) ==
    /\ pc = "start"
    /\ tag' = t
    /\ IF t \in DOMAIN PARSERS_DATA
       THEN /\ pparser' = PARSERS_DATA[t].parser
            /\ pformat' = t
            /\ pc' = "constructed"
       ELSE /\ pparser' = "unset"
            /\ pformat' = "unset"
            /\ pc' = "ValueError"
    /\ UNCHANGED <<file, chunk, pos, rawItem, out, rawLog, ioCount>>
    /\ UNCHANGED <<storeVars, indexVars, xmlVars>>

\* Parser.parse(path): builds the two generators; nothing runs yet
ParseCall(f) ==
    /\ pc = "constructed"
    /\ file' = f
    /\ pc' = "parsing"
    /\ UNCHANGED <<tag, pformat, pparser, chunk, pos, rawItem, out, rawLog,
                   ioCount>>
    /\ UNCHANGED <<storeVars, indexVars, xmlVars>>

\* CsvParser.parse resumed by coerce_model's for loop: the first resumption
\* reads the file, every resumption hands out the next record of the chunk
CsvParserNext ==
    /\ pc = "parsing"
    /\ pparser = "CsvParser"
    /\ rawItem = <<>>
    /\ pos < Len(file)
    /\ chunk' = IF ioCount = 0 THEN CsvRecords(file) ELSE chunk
    /\ ioCount' = IF ioCount = 0 THEN 1 ELSE ioCount
    /\ rawItem' = <<chunk'[pos + 1]>>
    /\ pos' = pos + 1
    /\ UNCHANGED <<pc, tag, pformat, pparser, file, out, rawLog>>
    /\ UNCHANGED <<storeVars, indexVars, xmlVars>>

\* XmlParser.parse resumed: iterparse reads on to the end of the next
\* item_basic_data element
XmlParserNext ==
    /\ pc = "parsing"
    /\ pparser = "XmlParser"
    /\ rawItem = <<>>
    /\ pos < Len(file)
    /\ rawItem' = <<XmlRecord(file[pos + 1])>>
    /\ ioCount' = ioCount + 1
    /\ pos' = pos + 1
    /\ UNCHANGED <<pc, tag, pformat, pparser, file, chunk, out, rawLog>>
    /\ UNCHANGED <<storeVars, indexVars, xmlVars>>

\* coerce_model with a filter that lets no empty record through
CoerceYieldSkipEmpty ==
    /\ pc = "parsing"
    /\ rawItem # <<>>
    /\ LET rec == CoerceItem(PARSERS_DATA[pformat].model_mapping, rawItem[1])
       IN  out' = IF DOMAIN rec = {} THEN out ELSE Append(out, rec)
    /\ rawLog' = Append(rawLog, rawItem[1])
    /\ rawItem' = <<>>
    /\ UNCHANGED <<pc, tag, pformat, pparser, file, chunk, pos, ioCount>>
    /\ UNCHANGED <<storeVars, indexVars, xmlVars>>

\* coerce_model yields the canonical record of the item it holds
CoerceYield ==
    /\ pc = "parsing"
    /\ rawItem # <<>>
    /\ out' = Append(out,
                CoerceItem(PARSERS_DATA[pformat].model_mapping, rawItem[1]))
    /\ rawLog' = Append(rawLog, rawItem[1])
    /\ rawItem' = <<>>
    /\ UNCHANGED <<pc, tag, pformat, pparser, file, chunk, pos, ioCount>>
    /\ UNCHANGED <<storeVars, indexVars, xmlVars>>

\* the format parser is exhausted, and so is coerce_model
ParseEnd ==
    /\ pc = "parsing"
    /\ rawItem = <<>>
    /\ pos = Len(file)
    /\ pc' = "done"
    /\ ioCount' = IF ioCount = 0 THEN 1 ELSE ioCount
    /\ UNCHANGED <<tag, pformat, pparser, file, chunk, pos, rawItem, out,
                   rawLog>>
    /\ UNCHANGED <<storeVars, indexVars, xmlVars>>

InitParser ==
    /\ pc = "start"
    /\ tag = "unset"
    /\ pformat = "unset"
    /\ pparser = "unset"
    /\ file = <<>>
    /\ chunk = <<>>
    /\ pos = 0
    /\ rawItem = <<>>
    /\ out = <<>>
    /\ rawLog = <<>>
    /\ ioCount = 0

NextParser ==
    \/ \E t \in Tags : ParserInit(t)
    \/ pc = "constructed" /\ \E f \in Files(pformat) : ParseCall(f)
    \/ CsvParserNext
    \/ XmlParserNext
    \/ CoerceYield
    \/ ParseEnd

\* ------------------------------------------------------ MongoStorage.store

\* What the generator handed to store produces: canonical records, or an
\* exception raised from the parser in place of a record.
Rec(r) == [kind |-> "record", rec |-> r]
Raises == [kind |-> "raise", rec |-> <<>>]

StoreRecords ==
    {[id |-> "'1'", title |-> "'a'"],
     [id |-> "'1'", brand |-> "'x'"],
     [id |-> "'2'", title |-> "'a'"],
     [title |-> "'a'"]}

StoreInputs ==
    SeqsUpTo({Rec(r) : r \in StoreRecords} \cup {Raises}, MaxBatch)

NoResult == [kind |-> "none", exc |-> "", writeErrors |-> {}, upserted |-> {}]
ReturnsNone == [kind |-> "return", exc |-> "", writeErrors |-> {}, upserted |-> {}]
RaisesExc(e) == [kind |-> "raise", exc |-> e, writeErrors |-> {}, upserted |-> {}]

MinOf(S) == CHOOSE x \in S : \A y \in S : x <= y

\* the documents of coll that the selector {"id": key} matches
Matching(coll, key) ==
    {i \in 1..Len(coll) : "id" \in DOMAIN coll[i] /\ coll[i].id = key}

\* an upsert that patches the document it finds, field by field
ApplyUpsertMerge(coll, doc) ==
    LET hits == Matching(coll, doc.id)
    IN  IF hits = {} THEN Append(coll, doc)
        ELSE LET old == coll[MinOf(hits)]
             IN  [coll EXCEPT ![MinOf(hits)] =
                    [k \in DOMAIN old \cup DOMAIN doc |->
                        IF k \in DOMAIN doc THEN doc[k] ELSE old[k]]]

\* an insert in place of the upsert
ApplyUpsertInsert(coll, doc) == Append(coll, doc)

\* find({"id": doc["id"]}).upsert().replace_one(doc), as the server applies
\* it: the first matching document is replaced whole (its _id, here its
\* place, is kept); without a match the document is inserted
ApplyUpsert(coll, doc) ==
    LET hits == Matching(coll, doc.id)
    IN  IF hits = {} THEN Append(coll, doc)
        ELSE [coll EXCEPT ![MinOf(hits)] = doc]

\* store(data) is called; the builder is created and the loop has not begun
BeginCall(S, r) ==
    /\ data' = S
    /\ round' = r
    /\ spc' = "draining"
    /\ spos' = 0
    /\ bulkOps' = <<>>
    /\ pending' = {}
    /\ applied' = {}
    /\ failed' = {}
    /\ upserted' = {}
    /\ before' = collection
    /\ result' = NoResult
    /\ UNCHANGED collection

StoreCall(S) ==
    /\ spc \in {"idle", "returned", "raised"}
    /\ BeginCall(S, 1)
    /\ afterFirst' = <<>>
    /\ UNCHANGED <<parserVars, indexVars, xmlVars>>

\* the same sequence is stored again after a call that returned
StoreAgain ==
    /\ spc = "returned"
    /\ round = 1
    /\ BeginCall(data, 2)
    /\ afterFirst' = collection
    /\ UNCHANGED <<parserVars, indexVars, xmlVars>>

\* one pass of the for loop with the operation applied as it is queued
StoreNextEager ==
    /\ spc = "draining"
    /\ spos < Len(data)
    /\ LET item == data[spos + 1]
       IN  IF item.kind = "raise"
           THEN /\ spc' = "raised"
                /\ result' = RaisesExc("ParseError")
                /\ UNCHANGED <<spos, bulkOps, collection>>
           ELSE IF "id" \notin DOMAIN item.rec
           THEN /\ spc' = "raised"
                /\ result' = RaisesExc("KeyError")
                /\ spos' = spos + 1
                /\ UNCHANGED <<bulkOps, collection>>
           ELSE /\ bulkOps' = Append(bulkOps, item.rec)
                /\ collection' = ApplyUpsert(collection, item.rec)
                /\ spos' = spos + 1
                /\ UNCHANGED <<spc, result>>
    /\ UNCHANGED <<data, pending, applied, failed, upserted, before, round,
                   afterFirst>>
    /\ UNCHANGED <<parserVars, indexVars, xmlVars>>

\* one pass of the for loop: pull the next doc from data, read doc["id"],
\* queue the upsert
StoreNext ==
    /\ spc = "draining"
    /\ spos < Len(data)
    /\ LET item == data[spos + 1]
       IN  IF item.kind = "raise"
           THEN /\ spc' = "raised"
                /\ result' = RaisesExc("ParseError")
                /\ UNCHANGED <<spos, bulkOps>>
           ELSE IF "id" \notin DOMAIN item.rec
           THEN /\ spc' = "raised"
                /\ result' = RaisesExc("KeyError")
                /\ spos' = spos + 1
                /\ UNCHANGED bulkOps
           ELSE /\ bulkOps' = Append(bulkOps, item.rec)
                /\ spos' = spos + 1
                /\ UNCHANGED <<spc, result>>
    /\ UNCHANGED <<data, pending, applied, failed, upserted, collection,
                   before, round, afterFirst>>
    /\ UNCHANGED <<parserVars, indexVars, xmlVars>>

\* data is exhausted and bulk.execute() is called: a builder with no
\* operation raises InvalidOperation, otherwise the batch goes to the server
StoreExecute ==
    /\ spc = "draining"
    /\ spos = Len(data)
    /\ IF bulkOps = <<>>
       THEN /\ spc' = "raised"
            /\ result' = RaisesExc("InvalidOperation")
            /\ UNCHANGED pending
       ELSE /\ spc' = "executing"
            /\ pending' = 1..Len(bulkOps)
            /\ UNCHANGED result
    /\ UNCHANGED <<data, spos, bulkOps, applied, failed, upserted, collection,
                   before, round, afterFirst>>
    /\ UNCHANGED <<parserVars, indexVars, xmlVars>>

\* the server executes one operation of the unordered batch, whichever it
\* takes next, and the operation succeeds or is rejected
ServerApply(i, ok) ==
    /\ spc = "executing"
    /\ i \in pending
    /\ pending' = pending \ {i}
    /\ IF ok
       THEN /\ collection' = ApplyUpsert(collection, bulkOps[i])
            /\ applied' = applied \cup {i}
            /\ upserted' = IF Matching(collection, bulkOps[i].id) = {}
                           THEN upserted \cup {i} ELSE upserted
            /\ UNCHANGED failed
       ELSE /\ failed' = failed \cup {i}
            /\ UNCHANGED <<collection, applied, upserted>>
    /\ UNCHANGED <<spc, data, spos, bulkOps, before, round, afterFirst,
                   result>>
    /\ UNCHANGED <<parserVars, indexVars, xmlVars>>

\* bulk.execute() ends: with a rejected operation it raises BulkWriteError,
\* whose details name the rejected operations and the upserted ones;
\* otherwise its result is dropped and store returns None
StoreReturn ==
    /\ spc = "executing"
    /\ pending = {}
    /\ IF failed # {}
       THEN /\ spc' = "raised"
            /\ result' = [kind |-> "raise", exc |-> "BulkWriteError",
                          writeErrors |-> {bulkOps[i].id : i \in failed},
                          upserted |-> {bulkOps[i].id : i \in upserted}]
       ELSE /\ spc' = "returned"
            /\ result' = ReturnsNone
    /\ UNCHANGED <<data, spos, bulkOps, pending, applied, failed, upserted,
                   collection, before, round, afterFirst>>
    /\ UNCHANGED <<parserVars, indexVars, xmlVars>>

InitStore ==
    /\ spc = "idle"
    /\ data = <<>>
    /\ spos = 0
    /\ bulkOps = <<>>
    /\ pending = {}
    /\ applied = {}
    /\ failed = {}
    /\ upserted = {}
    /\ collection = <<>>
    /\ before = <<>>
    /\ round = 1
    /\ afterFirst = <<>>
    /\ result = NoResult

NextStore ==
    \/ spc # "draining" /\ spc # "executing" /\
       \E S \in StoreInputs : StoreCall(S)
    \/ StoreAgain
    \/ StoreNext
    \/ StoreExecute
    \/ \E i \in pending, ok \in BOOLEAN : ServerApply(i, ok)
    \/ StoreReturn

\* ------------------------------------------------- claims on the Parser

\* "non-empty" as the specification uses it: there is a value and it is
\* not the empty string
NonEmpty(v) == v \notin {PyNone, PyEmptyStr}

\* the raw record of the i-th source row/element of a file
SourceRecord(fmt, f, i) ==
    IF fmt = CSV THEN CsvRecords(f)[i] ELSE XmlRecord(f[i])

\* C1: every canonical record coerce_model has produced contains canonical
\* field k if and only if the format's mapping names a native field for k
\* and the raw record's value under that name is non-empty, and then the
\* value is the raw record's value.
C1_FieldIffMappedAndNonEmpty ==
    \A i \in 1..Len(out) :
        LET mapping == PARSERS_DATA[pformat].model_mapping
        IN  \A k \in DOMAIN mapping :
              /\ (k \in DOMAIN out[i]) <=>
                    /\ mapping[k] # PyNone
                    /\ NonEmpty(DictGet(rawLog[i], mapping[k]))
              /\ k \in DOMAIN out[i] => out[i][k] = rawLog[i][mapping[k]]

\* C2: when Parser.parse is exhausted it has yielded exactly one canonical
\* record per source row/element, the i-th being the mapping of the i-th
\* source row/element; before that, what it has yielded is a prefix of it.
C2_OneToOneInOrder ==
    /\ pc \in {"parsing", "done"} =>
          /\ Len(out) <= Len(file)
          /\ \A i \in 1..Len(out) :
                out[i] = CoerceItem(PARSERS_DATA[pformat].model_mapping,
                                    SourceRecord(pformat, file, i))
    /\ pc = "done" => Len(out) = Len(file)

\* a finished parse of two rows, the first of which maps to the empty record
C2_Witness ==
    /\ pc = "done"
    /\ Len(file) > 1
    /\ DOMAIN out[1] = {}
    /\ DOMAIN out[Len(out)] # {}

\* C5: a tag that is not registered makes the constructor raise ValueError,
\* with no parser set, no path supplied and no read performed; a registered
\* tag constructs the parser of that tag, with no read performed.
C5_UnknownTagFailsFast ==
    /\ pc # "start" =>
          (pc = "ValueError" <=> tag \notin {CSV, XML})
    /\ pc = "ValueError" =>
          /\ pparser = "unset"
          /\ pformat = "unset"
          /\ ioCount = 0
          /\ file = <<>>
    /\ pc = "constructed" =>
          /\ pparser = PARSERS_DATA[tag].parser
          /\ pformat = tag
          /\ ioCount = 0

\* the constructor has raised for the tag "json"
C5_Witness == pc = "ValueError" /\ tag = "json"

\* ------------------------------------------- claims on MongoStorage.store

\* the id values of the operations of the batch
BatchIds == {bulkOps[i].id : i \in 1..Len(bulkOps)}

\* records of the batch that share an id are the same record
ConsistentIds ==
    \A i, j \in 1..Len(bulkOps) :
        bulkOps[i].id = bulkOps[j].id => bulkOps[i] = bulkOps[j]

\* C3, as claimed: when store(S) has returned and store(S) returns again, the
\* collection is what it was after the first call, whatever S is and in
\* whatever order the server took the operations.
C3_StoreTwiceSameContent ==
    (spc = "returned" /\ round = 2) => collection = afterFirst

\* C3, amended: the same, for every S in which the records that share an id
\* are equal.
C3_StoreTwiceSameContentConsistentIds ==
    (spc = "returned" /\ round = 2 /\ ConsistentIds) =>
        collection = afterFirst

\* a second store of a sequence that repeats an id has returned, on a
\* collection that holds another document too
C3_Witness ==
    /\ spc = "returned"
    /\ round = 2
    /\ ConsistentIds
    /\ \E i, j \in 1..Len(bulkOps) : i # j /\ bulkOps[i].id = bulkOps[j].id
    /\ Len(collection) > 1

\* C4: the collection never holds two documents with the same id; when
\* store(S) has returned, every id of S has exactly one document, which is
\* field for field a record of S with that id, and the documents whose id
\* is not in S are the ones that were there before, unchanged.
C4_OneDocumentPerId ==
    /\ \A i, j \in 1..Len(collection) :
          collection[i].id = collection[j].id => i = j
    /\ spc = "returned" =>
          /\ \A key \in BatchIds :
                /\ Cardinality(Matching(collection, key)) = 1
                /\ \A i \in Matching(collection, key) :
                      \E n \in 1..Len(bulkOps) :
                          bulkOps[n].id = key /\ collection[i] = bulkOps[n]
          /\ \A i \in 1..Len(before) :
                before[i].id \notin BatchIds =>
                    i <= Len(collection) /\ collection[i] = before[i]
          /\ \A i \in 1..Len(collection) :
                collection[i].id \notin BatchIds =>
                    i <= Len(before) /\ collection[i] = before[i]

\* store has returned after replacing a document by one with other fields,
\* next to a document it had no operation for
C4_Witness ==
    /\ spc = "returned"
    /\ \E i \in 1..Len(before) :
          /\ before[i].id \in BatchIds
          /\ DOMAIN before[i] # DOMAIN collection[i]
    /\ \E i \in 1..Len(before) : before[i].id \notin BatchIds

\* C6: when operations of a batch have been rejected, every other
\* operation of the batch has been applied, and what store hands back names
\* the keys of the rejected operations and the keys of the applied ones.
C6_PartialFailureReported ==
    (spc \in {"returned", "raised"} /\ failed # {}) =>
        /\ applied = (1..Len(bulkOps)) \ failed
        /\ result.writeErrors = {bulkOps[i].id : i \in failed}
        /\ result.upserted = {bulkOps[i].id : i \in applied}

\* C9: the sink never holds a pending operation for every record of an
\* input of more than one record (what a bound on the records held that
\* does not depend on the length of the input comes to, for one record per
\* stage).
C9_SinkHoldsFewerThanInput ==
    Len(data) > 1 => Len(bulkOps) < Len(data)

\* C10: when producing or keying a record raised while store was draining
\* data, no operation has been applied: the collection is what it was when
\* the call began.
C10_RaiseWhileDrainingCommitsNothing ==
    /\ spc = "draining" => collection = before
    /\ (spc = "raised" /\ result.exc \in {"ParseError", "KeyError"}) =>
          /\ collection = before
          /\ applied = {}

\* a record without id raised after an upsert that would have changed the
\* collection had been queued
C10_Witness ==
    /\ spc = "raised"
    /\ result.exc = "KeyError"
    /\ Len(bulkOps) > 0
    /\ ApplyUpsert(before, bulkOps[1]) # before

\* --------------------------------------------------- MongoStorage.__init__

Sinks == 1..NumSinks

\* the values of id a direct insert may carry
InsertIds == {"'1'", "'2'"}

\* the index create_index(index_name, unique=True) asks for: the server
\* names an ascending index on one key <key>_1
IdIndex == [name |-> "id_1", key |-> "id", unique |-> TRUE]
PrimaryIndex == [name |-> "_id_", key |-> "_id", unique |-> TRUE]

\* index_information(): a dict keyed by the names of the indexes
IndexInformation(ixs) == {ix.name : ix \in ixs}

HasDuplicates(docs) ==
    \E i, j \in 1..Len(docs) : i # j /\ docs[i] = docs[j]

\* the server's createIndexes: an index that exists with the same
\* specification is left as it is, one that exists under the same name or
\* key with another specification is a conflict, and a unique index cannot
\* be built over duplicates
ServerCreateIndex(ixs, docs, spec) ==
    IF spec \in ixs THEN [ok |-> TRUE, indexes |-> ixs]
    ELSE IF \E ix \in ixs : ix.name = spec.name \/ ix.key = spec.key
         THEN [ok |-> FALSE, indexes |-> ixs]
    ELSE IF spec.unique /\ HasDuplicates(docs)
         THEN [ok |-> FALSE, indexes |-> ixs]
    ELSE [ok |-> TRUE, indexes |-> ixs \cup {PrimaryIndex, spec}]

\* self.collection.index_information() of one construction
ReadIndexInformation(s) ==
    /\ ipc[s] = "new"
    /\ seen' = [seen EXCEPT ![s] = IndexInformation(indexes)]
    /\ ipc' = [ipc EXCEPT ![s] = "read"]
    /\ UNCHANGED <<indexes, idocs, lastInsert>>
    /\ UNCHANGED <<parserVars, storeVars, xmlVars>>

\* the test on what was read and the create_index call, without unique=True
CreateIndexNotUnique(s) ==
    /\ ipc[s] = "read"
    /\ LET index_name == "id"
           r == ServerCreateIndex(indexes, idocs,
                                  [IdIndex EXCEPT !.unique = FALSE])
       IN  IF index_name \notin seen[s]
           THEN /\ indexes' = r.indexes
                /\ ipc' = [ipc EXCEPT ![s] = IF r.ok THEN "done" ELSE "error"]
           ELSE /\ ipc' = [ipc EXCEPT ![s] = "done"]
                /\ UNCHANGED indexes
    /\ UNCHANGED <<seen, idocs, lastInsert>>
    /\ UNCHANGED <<parserVars, storeVars, xmlVars>>

\* if index_name not in <what was read>: create_index(index_name,
\* unique=True); the constructor then returns, or raises what the server
\* answered
CreateIndex(s) ==
    /\ ipc[s] = "read"
    /\ LET index_name == "id"
           r == ServerCreateIndex(indexes, idocs, IdIndex)
       IN  IF index_name \notin seen[s]
           THEN /\ indexes' = r.indexes
                /\ ipc' = [ipc EXCEPT ![s] = IF r.ok THEN "done" ELSE "error"]
           ELSE /\ ipc' = [ipc EXCEPT ![s] = "done"]
                /\ UNCHANGED indexes
    /\ UNCHANGED <<seen, idocs, lastInsert>>
    /\ UNCHANGED <<parserVars, storeVars, xmlVars>>

\* a client of a constructed sink inserts a document directly, not through
\* the upsert of store: a unique index on id rejects a value it holds
DirectInsert(v) ==
    /\ \E s \in Sinks : ipc[s] = "done"
    /\ Len(idocs) < MaxInserts
    /\ IF /\ \E ix \in indexes : ix.key = "id" /\ ix.unique
          /\ \E i \in 1..Len(idocs) : idocs[i] = v
       THEN /\ lastInsert' = "DuplicateKeyError"
            /\ UNCHANGED idocs
       ELSE /\ lastInsert' = "ok"
            /\ idocs' = Append(idocs, v)
    /\ UNCHANGED <<ipc, seen, indexes>>
    /\ UNCHANGED <<parserVars, storeVars, xmlVars>>

InitIndex ==
    /\ ipc = [s \in Sinks |-> "new"]
    /\ seen = [s \in Sinks |-> {}]
    /\ indexes = {}
    /\ idocs = <<>>
    /\ lastInsert = "none"

NextIndex ==
    \/ \E s \in Sinks : ReadIndexInformation(s)
    \/ \E s \in Sinks : CreateIndex(s)
    \/ \E v \in InsertIds : DirectInsert(v)

\* ------------------------------------------ claims on MongoStorage.__init__

\* C7: in every interleaving of the constructions no construction ends in
\* an error and none is stuck, and once one has returned the collection has
\* exactly one index on id, a unique one, so that no two documents inserted
\* directly share an id.
C7_ConcurrentConstructionSafe ==
    /\ \A s \in Sinks : ipc[s] # "error"
    /\ \A s \in Sinks :
          ipc[s] # "done" =>
              ENABLED (ReadIndexInformation(s) \/ CreateIndex(s))
    /\ (\E s \in Sinks : ipc[s] = "done") =>
          /\ Cardinality({ix \in indexes : ix.key = "id"}) = 1
          /\ \A ix \in indexes : ix.key = "id" => ix.unique
          /\ ~HasDuplicates(idocs)

\* two constructions that both read the indexes before either created one
\* have returned, and a direct insert of a repeated id was rejected
C7_Witness ==
    /\ \E s, t \in Sinks :
          /\ s # t
          /\ ipc[s] = "done" /\ ipc[t] = "done"
          /\ seen[s] = {} /\ seen[t] = {}
    /\ lastInsert = "DuplicateKeyError"

\* ---------------------------------------- XmlParser.parse and its tree

\* A document is the sequence of the elements under its root, each given
\* by a number: Other is an element that is no record, Bare an
\* item_basic_data element, and n > 0 an element that wraps n
\* item_basic_data elements.
Other == 0 - 1
Bare == 0
XmlEntries == {Other, Bare} \cup (1..MaxWrapped)
XmlDocs == SeqsUpTo(XmlEntries, MaxEntries)

\* the nodes of the tree: a record element with its children still
\* attached, a cleared record element, another leaf, a wrapper
ItemNode == [tag |-> "item_basic_data", kids |-> ItemChildren, sub |-> <<>>]
ClearedItem == [tag |-> "item_basic_data", kids |-> 0, sub |-> <<>>]
OtherNode == [tag |-> "other", kids |-> 0, sub |-> <<>>]
WrapperNode(items) == [tag |-> "wrapper", kids |-> 0, sub |-> items]

RECURSIVE SumOver(_, _)
SumOver(q, i) ==
    IF i > Len(q) THEN 0
    ELSE 1 + q[i].kids + SumOver(q[i].sub, 1) + SumOver(q, i + 1)

\* the element nodes attached to the tree, the root among them
Attached(t) == 1 + SumOver(t, 1)

\* elem.clear() alone, the preceding siblings left in place
CleanupClearOnly(t, wrapped) ==
    IF wrapped
    THEN [t EXCEPT ![Len(t)].sub =
            [@ EXCEPT ![Len(t[Len(t)].sub)] = ClearedItem]]
    ELSE [t EXCEPT ![Len(t)] = ClearedItem]

\* elem.clear(), then del elem.getparent()[0] while elem has a previous
\* sibling.  elem is the last element parsed: the last child of the root,
\* or (wrapped) the last child of the root's last child.
Cleanup(t, wrapped) ==
    IF wrapped
    THEN [t EXCEPT ![Len(t)].sub = <<ClearedItem>>]
    ELSE <<ClearedItem>>

\* the place of the record element that ends next after place at, or <<>>
NextRecord(d, at) ==
    IF at # <<>> /\ at[2] > 0 /\ at[2] < d[at[1]]
    THEN <<at[1], at[2] + 1>>
    ELSE LET from == IF at = <<>> THEN 1 ELSE at[1] + 1
             later == {e \in from..Len(d) : d[e] # Other}
         IN  IF later = {} THEN <<>>
             ELSE LET e == MinOf(later)
                  IN  <<e, IF d[e] = Bare THEN 0 ELSE 1>>

\* the tree once iterparse has read on from place at to the end tag of the
\* record element at place to
ReadOn(t, d, at, to) ==
    IF to[2] > 1
    THEN [t EXCEPT ![Len(t)].sub = Append(@, ItemNode)]
    ELSE LET from == IF at = <<>> THEN 1 ELSE at[1] + 1
             skipped == [i \in 1..(to[1] - from) |-> OtherNode]
         IN  t \o skipped \o
             <<IF to[2] = 0 THEN ItemNode ELSE WrapperNode(<<ItemNode>>)>>

\* XmlParser.parse(path): the generator is created
XmlOpen(d) ==
    /\ xpc = "start"
    /\ xdoc' = d
    /\ xpc' = "created"
    /\ UNCHANGED <<xat, tree, xcount>>
    /\ UNCHANGED <<parserVars, storeVars, indexVars>>

\* the generator is resumed: the cleanup after the last yield runs, then
\* iterparse reads on to the next end event and the record is yielded, or
\* to the end of the document
XmlNext ==
    /\ xpc \in {"created", "yielded"}
    /\ LET cleaned == IF xat = <<>> THEN tree ELSE Cleanup(tree, xat[2] > 0)
           to == NextRecord(xdoc, xat)
       IN  IF to = <<>>
           THEN /\ xpc' = "exhausted"
                /\ tree' = cleaned
                /\ UNCHANGED <<xat, xcount>>
           ELSE /\ xpc' = "yielded"
                /\ tree' = ReadOn(cleaned, xdoc, xat, to)
                /\ xat' = to
                /\ xcount' = xcount + 1
    /\ UNCHANGED xdoc
    /\ UNCHANGED <<parserVars, storeVars, indexVars>>

InitXml ==
    /\ xpc = "start"
    /\ xdoc = <<>>
    /\ xat = <<>>
    /\ tree = <<>>
    /\ xcount = 0

NextXml ==
    \/ xpc = "start" /\ \E d \in XmlDocs : XmlOpen(d)
    \/ XmlNext

\* ----------------------------------------------- claims on XmlParser.parse

\* the nodes one record keeps attached: the root, a wrapper, the cleared
\* record before it, the record itself and its children
Footprint == Attached(<<WrapperNode(<<ClearedItem, ItemNode>>)>>)

\* the elements under the root that are no records and lie between the
\* last bare record before the record yielded last and that record: only
\* the cleanup of a record under the root detaches children of the root
OthersAttached ==
    IF xat = <<>> THEN 0
    ELSE Cardinality({e \in 1..(xat[1] - 1) :
            /\ xdoc[e] = Other
            /\ \A r \in (e + 1)..(xat[1] - 1) : xdoc[r] # Bare})

\* the record elements of the document are all children of one element
RecordsAreSiblings ==
    \/ \A e \in 1..Len(xdoc) : xdoc[e] \in {Other, Bare}
    \/ Cardinality({e \in 1..Len(xdoc) : xdoc[e] > 0}) = 1 /\
       \A e \in 1..Len(xdoc) : xdoc[e] # Bare

\* C8, as claimed: whenever a record is yielded, the nodes attached to the
\* tree are at most those of one record and the elements that are no records
\* and no cleanup could reach, wherever in the document the records are.
C8_AttachedBounded ==
    xpc = "yielded" => Attached(tree) <= Footprint + OthersAttached

\* C8, amended: the same, for a document whose record elements are all
\* children of one element.
C8_AttachedBoundedForSiblings ==
    (xpc = "yielded" /\ RecordsAreSiblings) =>
        Attached(tree) <= Footprint + OthersAttached

\* the third of three sibling records has been yielded
C8_Witness ==
    /\ xpc = "yielded"
    /\ RecordsAreSiblings
    /\ xcount > 2
    /\ Attached(tree) < xcount * Attached(<<ItemNode>>)

\* ---------------------------------------------------------- specifications

Init == InitParser /\ InitStore /\ InitIndex /\ InitXml

SpecParser == Init /\ [][NextParser]_vars

SpecStore == Init /\ [][NextStore]_vars

SpecIndex == Init /\ [][NextIndex]_vars

SpecXml == Init /\ [][NextXml]_vars

=============================================================================
